---- MODULE Spec2Model ----
(***************************************************************************)
(* Model of robocode_vscode/rcc.py: the rcc installer (download_rcc), the  *)
(* location resolver (Rcc.get_rcc_location), the subprocess runner         *)
(* (Rcc._run_rcc) and the facade operations of class Rcc, called           *)
(* concurrently by several operating-system processes that share one file  *)
(* system and the machine-wide named mutexes.                              *)
(***************************************************************************)
EXTENDS Naturals, Sequences, FiniteSets, TLC

\* Number of processes (editor instances) calling into rcc.py concurrently.
NumProcs == 2

Procs == 1..NumProcs

(***************************************************************************)
(* Python values.  Every value is a record tagged by t, so that values of  *)
(* different Python types can be stored in the same field.                 *)
(***************************************************************************)
None == [t |-> "None"]

PyStr(chars) == [t |-> "str", chars |-> chars]

PyList(items) == [t |-> "list", items |-> items]

\* What json.loads returns: JSON numbers, strings, null, booleans, arrays, objects.
JNum(n) == [t |-> "num", n |-> n]

JStr(chars) == [t |-> "jstr", chars |-> chars]

JNull == [t |-> "null"]

JBool(b) == [t |-> "bool", b |-> b]

JArr(items) == [t |-> "arr", items |-> items]

JObj(fields) == [t |-> "obj", fields |-> fields]

(***************************************************************************)
(* The text a child process wrote to stdout, decoded.  A text that is not  *)
(* a JSON document is the sequence of its characters; a text that is a     *)
(* JSON document is given by the value json.loads returns for it, and its  *)
(* characters are one opaque token.                                        *)
(***************************************************************************)
Text(chars) == [t |-> "text", chars |-> chars]

JsonText(val) == [t |-> "json", val |-> val]

Chars(output) == IF output.t = "text" THEN output.chars ELSE <<"{json}">>

\* Python's `not output` for a str.
IsEmptyStr(output) == Chars(output) = <<>>

RECURSIVE HasPrefixAt(_, _, _)
HasPrefixAt(s, i, pat) ==
    IF pat = <<>> THEN TRUE
    ELSE IF i > Len(s) THEN FALSE
    ELSE s[i] = Head(pat) /\ HasPrefixAt(s, i + 1, Tail(pat))

\* Python's `pat in s` for strings.
Contains(s, pat) == \E i \in 1..(Len(s) + 1) : HasPrefixAt(s, i, pat)

OK_MARKER == <<"O", "K", ".">>

(***************************************************************************)
(* protocols.py: ActionResult(success, message=None, result=None).         *)
(***************************************************************************)
ActionResult(success, message, result) ==
    [kind |-> "ActionResult", success |-> success, message |-> message, result |-> result]

\* A call that returned a plain value (a bool, a path, None).
Returned(value) == [kind |-> "value", value |-> value]

\* A call that ended in an exception leaving the called function.
Raised(exc) == [kind |-> "raised", exc |-> exc]

\* No call has returned yet.
NoReturn == [kind |-> "pending"]

Msg(parts) == [t |-> "msg", parts |-> parts]

PyBool(b) == [t |-> "pybool", b |-> b]

(***************************************************************************)
(* Python operations on the values json.loads returns.  An operation that  *)
(* raises is modelled by ok = FALSE.                                       *)
(***************************************************************************)
RECURSIVE SetToSeq(_)
SetToSeq(S) ==
    IF S = {} THEN <<>>
    ELSE LET x == CHOOSE y \in S : TRUE IN <<x>> \o SetToSeq(S \ {x})

\* bool(v): the truth value of v.
Truthy(v) ==
    CASE v.t = "num" -> v.n # 0
      [] v.t = "jstr" -> v.chars # <<>>
      [] v.t = "null" -> FALSE
      [] v.t = "bool" -> v.b
      [] v.t = "arr" -> v.items # <<>>
      [] v.t = "obj" -> DOMAIN v.fields # {}

Digits == <<"0", "1", "2", "3", "4", "5", "6", "7", "8", "9">>

DigitValue(c) == (CHOOSE i \in 1..Len(Digits) : Digits[i] = c) - 1

IsDigit(c) == \E i \in 1..Len(Digits) : Digits[i] = c

RECURSIVE DecimalValue(_)
DecimalValue(chars) ==
    IF chars = <<>> THEN 0
    ELSE 10 * DecimalValue(SubSeq(chars, 1, Len(chars) - 1)) + DigitValue(chars[Len(chars)])

\* int(v): ValueError for a str that is not a decimal literal, TypeError for
\* None, a list or a dict.
PyInt(v) ==
    CASE v.t = "num" -> [ok |-> TRUE, n |-> v.n]
      [] v.t = "bool" -> [ok |-> TRUE, n |-> IF v.b THEN 1 ELSE 0]
      [] v.t = "jstr" ->
            IF v.chars # <<>> /\ \A i \in 1..Len(v.chars) : IsDigit(v.chars[i])
            THEN [ok |-> TRUE, n |-> DecimalValue(v.chars)]
            ELSE [ok |-> FALSE, n |-> 0]
      [] OTHER -> [ok |-> FALSE, n |-> 0]

\* iter(v): a list gives its items, a dict its keys, a str its characters;
\* numbers, None and booleans are not iterable (TypeError).
Iterate(v) ==
    CASE v.t = "arr" -> [ok |-> TRUE, items |-> v.items]
      [] v.t = "obj" ->
            [ok |-> TRUE,
             items |-> [i \in 1..Cardinality(DOMAIN v.fields) |->
                            JStr(<<SetToSeq(DOMAIN v.fields)[i]>>)]]
      [] v.t = "jstr" ->
            [ok |-> TRUE, items |-> [i \in 1..Len(v.chars) |-> JStr(<<v.chars[i]>>)]]
      [] OTHER -> [ok |-> FALSE, items |-> <<>>]

\* v[key] for a str key: KeyError for a dict without the key, TypeError for
\* anything that is not a dict.
Subscript(v, key) ==
    IF v.t = "obj" /\ key \in DOMAIN v.fields
    THEN [ok |-> TRUE, val |-> v.fields[key]]
    ELSE [ok |-> FALSE, val |-> JNull]

\* v.get(key): AttributeError for anything that is not a dict, None for a
\* dict without the key.
DictGet(v, key) ==
    IF v.t = "obj"
    THEN [ok |-> TRUE, val |-> IF key \in DOMAIN v.fields THEN v.fields[key] ELSE JNull]
    ELSE [ok |-> FALSE, val |-> JNull]

\* json.loads(output): JSONDecodeError for a text that is not a JSON document.
JsonLoads(output) ==
    IF output.t = "json" THEN [ok |-> TRUE, val |-> output.val]
    ELSE [ok |-> FALSE, val |-> JNull]

(***************************************************************************)
(* Python str operations used by get_template_names.                       *)
(***************************************************************************)
\* The characters the modelled outputs are written in, in code-point order.
Alphabet == <<"\n", " ", "-", ".", "K", "O", "a", "b", "c">>

CodePoint(c) == CHOOSE i \in 1..Len(Alphabet) : Alphabet[i] = c

IsSpace(c) == c \in {" ", "\n", "\t", "\r"}

RECURSIVE SplitLines(_)
\* str.splitlines(): the lines, without their line breaks.
SplitLines(s) ==
    IF s = <<>> THEN <<>>
    ELSE IF \E i \in 1..Len(s) : s[i] = "\n"
         THEN LET i == CHOOSE j \in 1..Len(s) :
                          s[j] = "\n" /\ \A k \in 1..(j - 1) : s[k] # "\n"
              IN <<SubSeq(s, 1, i - 1)>> \o SplitLines(SubSeq(s, i + 1, Len(s)))
         ELSE <<s>>

\* str.startswith(prefix).
StartsWith(s, prefix) == HasPrefixAt(s, 1, prefix)

RECURSIVE Strip(_)
\* str.strip(): without leading and trailing whitespace.
Strip(s) ==
    IF s = <<>> THEN s
    ELSE IF IsSpace(s[1]) THEN Strip(Tail(s))
    ELSE IF IsSpace(s[Len(s)]) THEN Strip(SubSeq(s, 1, Len(s) - 1))
    ELSE s

RECURSIVE StrLess(_, _)
\* a < b for strings: lexicographic by code point.
StrLess(a, b) ==
    IF b = <<>> THEN FALSE
    ELSE IF a = <<>> THEN TRUE
    ELSE IF a[1] # b[1] THEN CodePoint(a[1]) < CodePoint(b[1])
    ELSE StrLess(Tail(a), Tail(b))

RECURSIVE InsertSorted(_, _)
InsertSorted(x, sorted) ==
    IF sorted = <<>> THEN <<x>>
    ELSE IF StrLess(x, Head(sorted)) THEN <<x>> \o sorted
    ELSE <<Head(sorted)>> \o InsertSorted(x, Tail(sorted))

RECURSIVE Sorted(_)
\* sorted(list of str): ascending, duplicates kept.
Sorted(names) ==
    IF names = <<>> THEN <<>>
    ELSE InsertSorted(names[Len(names)], Sorted(SubSeq(names, 1, Len(names) - 1)))

(***************************************************************************)
(* The operations of rcc.py and the arguments each passes to _run_rcc.     *)
(***************************************************************************)
RCC_CLOUD_ACTIVITY_MUTEX_NAME == "rcc_cloud_activity"

RCC_CREDENTIALS_MUTEX_NAME == "rcc_credentials"

\* The mutex download_rcc takes.
GET_RCC_MUTEX_NAME == "robocode_get_rcc"

\* mutex_name=None, the default of _run_rcc.
NoMutexName == "None"

MutexNames == {GET_RCC_MUTEX_NAME, RCC_CREDENTIALS_MUTEX_NAME, RCC_CLOUD_ACTIVITY_MUTEX_NAME}

\* The operations that go through _run_rcc.
RunOps ==
    {"get_template_names", "create_activity", "add_credentials", "credentials_valid",
     "cloud_list_workspaces", "cloud_list_workspace_activities",
     "cloud_set_activity_contents", "cloud_create_activity"}

\* All entry points a process may call.
Ops == RunOps \cup {"get_rcc_location", "download_rcc"}

\* As MutexNameOf, with credentials_valid passing no mutex_name.
MutexNameOf_CredentialsValidUnguarded(op) ==
    CASE op \in {"add_credentials"} -> RCC_CREDENTIALS_MUTEX_NAME
      [] op \in {"cloud_list_workspaces", "cloud_list_workspace_activities",
                 "cloud_set_activity_contents", "cloud_create_activity"}
            -> RCC_CLOUD_ACTIVITY_MUTEX_NAME
      [] OTHER -> NoMutexName

\* As MutexNameOf, with "rcc_credentials" passed by the operations that pass
\* no mutex_name.
MutexNameOf_AllGuarded(op) ==
    CASE op \in {"cloud_list_workspaces", "cloud_list_workspace_activities",
                 "cloud_set_activity_contents", "cloud_create_activity"}
            -> RCC_CLOUD_ACTIVITY_MUTEX_NAME
      [] OTHER -> RCC_CREDENTIALS_MUTEX_NAME

\* The mutex_name argument each operation passes to _run_rcc.
MutexNameOf(op) ==
    CASE op \in {"add_credentials", "credentials_valid"} -> RCC_CREDENTIALS_MUTEX_NAME
      [] op \in {"cloud_list_workspaces", "cloud_list_workspace_activities",
                 "cloud_set_activity_contents", "cloud_create_activity"}
            -> RCC_CLOUD_ACTIVITY_MUTEX_NAME
      [] OTHER -> NoMutexName

\* The expect_ok argument each operation passes to _run_rcc (default True).
ExpectOk(op) ==
    op \notin {"credentials_valid", "cloud_list_workspaces", "cloud_list_workspace_activities"}

\* The error_msg argument each operation passes to _run_rcc (default "").
ErrorMsg(op) == IF op = "create_activity" THEN "Error creating activity." ELSE ""

(***************************************************************************)
(* Rcc._run_rcc, lines 211-254: the ActionResult computed from what the    *)
(* try block (mutex acquisition and check_output) ended with:              *)
(*   [k |-> "completed", stdout]          check_output returned (exit 0)   *)
(*   [k |-> "CalledProcessError", stdout, stderr]      non-zero exit code  *)
(*   [k |-> "Exception"]   any other exception: TimeoutExpired, OSError,   *)
(*                         the mutex not acquired within its timeout       *)
(***************************************************************************)
Completed(stdout) == [k |-> "completed", stdout |-> stdout]

CalledProcessError(stdout, stderr) ==
    [k |-> "CalledProcessError", stdout |-> stdout, stderr |-> stderr]

OtherException(exc) == [k |-> "Exception", exc |-> exc]

\* Lines 211-236.
CalledProcessErrorResult(error_msg, stdout, stderr) ==
    IF error_msg = ""
    THEN ActionResult(FALSE,
                      Msg(<<"Error running: ", "cmdline", ".\nStdout: ", stdout,
                            "\nStderr: ", stderr>>),
                      None)
    ELSE LET additional_info ==
                 IF stdout # "" \/ stderr # ""
                 THEN IF stdout # "" /\ stderr # ""
                      THEN <<error_msg, "\nDetails: ", "\nStdout", stdout, "\nStderr", stderr>>
                      ELSE IF stdout # ""
                           THEN <<error_msg, "\nDetails: ", stdout>>
                           ELSE <<error_msg, "\nDetails: ", stderr>>
                 ELSE <<error_msg>>
         IN ActionResult(FALSE, Msg(additional_info), None)

\* As CompletedResult, with the marker looked for whatever expect_ok is.
CompletedResult_MarkerAlwaysRequired(expect_ok, output) ==
    IF Contains(Chars(output), OK_MARKER)
    THEN ActionResult(TRUE, None, output)
    ELSE ActionResult(FALSE, Msg(<<"OK. not found in message">>), output)

\* Lines 243-254, as written.
CompletedResult(expect_ok, output) ==
    IF expect_ok
    THEN IF Contains(Chars(output), OK_MARKER)
         THEN ActionResult(TRUE, None, output)
         ELSE ActionResult(FALSE, Msg(<<"OK. not found in message">>), output)
    ELSE ActionResult(TRUE, None, output)

_run_rcc(expect_ok, error_msg, outcome) ==
    CASE outcome.k = "CalledProcessError" ->
            CalledProcessErrorResult(error_msg, outcome.stdout, outcome.stderr)
      [] outcome.k = "Exception" ->
            ActionResult(FALSE, Msg(<<"Error running: ", "args">>), None)
      [] outcome.k = "completed" ->
            CompletedResult(expect_ok, outcome.stdout)

(***************************************************************************)
(* What each facade operation makes of the ActionResult of _run_rcc.       *)
(***************************************************************************)
RECURSIVE TemplateNames(_)
\* Lines 265-269: the names of the lines that start with "- ".
TemplateNames(lines) ==
    IF lines = <<>> THEN <<>>
    ELSE IF StartsWith(Head(lines), <<"-", " ">>)
         THEN <<Strip(SubSeq(Head(lines), 3, Len(Head(lines))))>> \o TemplateNames(Tail(lines))
         ELSE TemplateNames(Tail(lines))

\* Lines 259-271.
get_template_names_return(result) ==
    IF ~result.success THEN ActionResult(FALSE, result.message, None)
    ELSE IF result.result = None
         THEN ActionResult(FALSE, Msg(<<"Output not available">>), None)
         ELSE ActionResult(TRUE, None,
                           PyList(Sorted(TemplateNames(SplitLines(Chars(result.result))))))

RECURSIVE CredentialsLoop(_)
\* Lines 326-331: the loop over the records of the parsed output.
CredentialsLoop(credentials) ==
    IF credentials = <<>> THEN Returned(PyBool(FALSE))
    ELSE LET timestamp == DictGet(Head(credentials), "verified")
         IN IF ~timestamp.ok THEN Raised("AttributeError")
            ELSE IF ~Truthy(timestamp.val) THEN CredentialsLoop(Tail(credentials))
            ELSE IF ~PyInt(timestamp.val).ok
                 THEN Raised(IF timestamp.val.t = "jstr" THEN "ValueError" ELSE "TypeError")
            ELSE IF PyInt(timestamp.val).n # 0 THEN Returned(PyBool(TRUE))
            ELSE CredentialsLoop(Tail(credentials))

\* Lines 315-331.
credentials_valid_return(result) ==
    IF ~result.success THEN Returned(PyBool(FALSE))
    ELSE IF result.result = None \/ IsEmptyStr(result.result)
         THEN Returned(PyBool(FALSE))
    ELSE IF ~JsonLoads(result.result).ok THEN Raised("JSONDecodeError")
    ELSE IF ~Iterate(JsonLoads(result.result).val).ok THEN Raised("TypeError")
    ELSE CredentialsLoop(Iterate(JsonLoads(result.result).val).items)

RccWorkspace(workspace_id, workspace_name) ==
    [t |-> "RccWorkspace", workspace_id |-> workspace_id, workspace_name |-> workspace_name]

RccActivity(activity_id, activity_name) ==
    [t |-> "RccActivity", activity_id |-> activity_id, activity_name |-> activity_name]

\* info["id"] and info["name"] both evaluate without an exception.
HasIdAndName(info) == Subscript(info, "id").ok /\ Subscript(info, "name").ok

\* Lines 354-360 and 387-392: ok iff no item raises KeyError or TypeError.
InfosOk(infos) == \A i \in 1..Len(infos) : HasIdAndName(infos[i])

\* Lines 345-361.
cloud_list_workspaces_return(result) ==
    IF ~result.success THEN ActionResult(FALSE, result.message, None)
    ELSE IF result.result = None \/ IsEmptyStr(result.result)
         THEN ActionResult(FALSE,
                  Msg(<<"Error listing cloud workspaces (output not available).">>), None)
    ELSE IF ~JsonLoads(result.result).ok THEN Raised("JSONDecodeError")
    ELSE IF ~Iterate(JsonLoads(result.result).val).ok THEN Raised("TypeError")
    ELSE LET infos == Iterate(JsonLoads(result.result).val).items
         IN IF ~InfosOk(infos) THEN Raised("KeyError or TypeError")
            ELSE ActionResult(TRUE, None,
                     PyList([i \in 1..Len(infos) |->
                                RccWorkspace(Subscript(infos[i], "id").val,
                                             Subscript(infos[i], "name").val)]))

\* Lines 376-393.
cloud_list_workspace_activities_return(result) ==
    IF ~result.success THEN ActionResult(FALSE, result.message, None)
    ELSE IF result.result = None \/ IsEmptyStr(result.result)
         THEN ActionResult(FALSE,
                  Msg(<<"Error listing cloud workspace activities (output not available).">>),
                  None)
    ELSE IF ~JsonLoads(result.result).ok THEN Raised("JSONDecodeError")
    ELSE IF ~Subscript(JsonLoads(result.result).val, "activities").ok
         THEN Raised("KeyError or TypeError")
    ELSE IF ~Iterate(Subscript(JsonLoads(result.result).val, "activities").val).ok
         THEN Raised("TypeError")
    ELSE LET infos == Iterate(Subscript(JsonLoads(result.result).val, "activities").val).items
         IN IF ~InfosOk(infos) THEN Raised("KeyError or TypeError")
            ELSE ActionResult(TRUE, None,
                     PyList([i \in 1..Len(infos) |->
                                RccActivity(Subscript(infos[i], "id").val,
                                            Subscript(infos[i], "name").val)]))

\* What the operation returns (or raises) once _run_rcc has returned result.
FacadeReturn(op, result) ==
    CASE op = "get_template_names" -> get_template_names_return(result)
      [] op = "credentials_valid" -> credentials_valid_return(result)
      [] op = "cloud_list_workspaces" -> cloud_list_workspaces_return(result)
      [] op = "cloud_list_workspace_activities" ->
            cloud_list_workspace_activities_return(result)
      [] OTHER -> result

(***************************************************************************)
(* What a child process may write.  The sets are the inputs the model      *)
(* enumerates for each operation.                                          *)
(***************************************************************************)
\* Texts that are not JSON documents: empty, with and without the "OK."
\* marker, and template listings without the marker, with it, and with it and
\* a name listed twice.
PlainTexts ==
    {Text(<<>>),
     Text(<<"O", "K", ".">>),
     Text(<<"a", "b">>),
     Text(<<"c", "\n", "-", " ", "b", "\n", "-", " ", "a", " ", "\n", "a", "-", " ", "c">>),
     Text(<<"O", "K", ".", "\n", "-", " ", "b", "\n", "-", " ", " ", "a", " ">>),
     Text(<<"-", " ", "b", "\n", "-", " ", "a", "\n", "-", " ", "b", "\n", "O", "K", ".">>)}

\* config credentials -j --verified
CredentialDocs ==
    {JArr(<<>>),
     JArr(<<JObj([verified |-> JNum(0)]), JObj([verified |-> JNum(17)])>>),
     JArr(<<JObj([verified |-> JNum(0)])>>),
     JArr(<<JObj([verified |-> JStr(<<"1", "2">>)])>>),
     JArr(<<JObj([verified |-> JStr(<<"0">>)])>>),
     JArr(<<JObj([verified |-> JStr(<<"a">>)])>>),
     JArr(<<JObj([verified |-> JNull]), JObj([account |-> JStr(<<"a">>)])>>),
     JArr(<<JObj([verified |-> JBool(TRUE)])>>),
     JArr(<<JObj([verified |-> JArr(<<JNum(1)>>)])>>),
     JArr(<<JNum(5)>>),
     JObj([verified |-> JNum(17)]),
     JObj(<<>>),
     JNull}

\* cloud workspace
WorkspaceDocs ==
    {JArr(<<>>),
     JArr(<<JObj([id |-> JStr(<<"w", "1">>), name |-> JStr(<<"A">>)])>>),
     JArr(<<JObj([id |-> JStr(<<"w", "1">>)])>>),
     JArr(<<JStr(<<"w", "1">>)>>),
     JObj([id |-> JStr(<<"w", "1">>), name |-> JStr(<<"A">>)]),
     JNum(5)}

\* cloud workspace --workspace <id>
ActivityDocs ==
    {JObj([activities |-> JArr(<<>>)]),
     JObj([activities |->
              JArr(<<JObj([id |-> JStr(<<"a", "1">>), name |-> JStr(<<"B">>)])>>)]),
     JObj([activities |-> JArr(<<JObj([name |-> JStr(<<"B">>)])>>)]),
     JObj([activities |-> JNull]),
     JObj([id |-> JStr(<<"w", "1">>)]),
     JArr(<<JObj([id |-> JStr(<<"a", "1">>), name |-> JStr(<<"B">>)])>>)}

\* Texts that are not JSON documents, for the operations that parse JSON:
\* empty, without and with the "OK." marker.
NonJsonTexts == {Text(<<>>), Text(<<"a", "b">>), Text(<<"O", "K", ".">>)}

StdoutsFor(op) ==
    CASE op = "credentials_valid" -> NonJsonTexts \cup {JsonText(d) : d \in CredentialDocs}
      [] op = "cloud_list_workspaces" -> NonJsonTexts \cup {JsonText(d) : d \in WorkspaceDocs}
      [] op = "cloud_list_workspace_activities" ->
            NonJsonTexts \cup {JsonText(d) : d \in ActivityDocs}
      [] OTHER -> PlainTexts

\* The stdout and stderr a failed child leaves in CalledProcessError.
ErrTexts == {"", "text"}

ErrOutputs == ErrTexts \X ErrTexts

\* Two outputs for each operation, one it accepts and one it does not, for
\* the runs of several processes, where the interleaving is what matters.
FewStdoutsFor(op) ==
    CASE op = "credentials_valid" ->
            {JsonText(JArr(<<JObj([verified |-> JNum(0)]), JObj([verified |-> JNum(17)])>>)),
             Text(<<"a", "b">>)}
      [] op = "cloud_list_workspaces" ->
            {JsonText(JArr(<<JObj([id |-> JStr(<<"w", "1">>), name |-> JStr(<<"A">>)])>>)),
             Text(<<"a", "b">>)}
      [] op = "cloud_list_workspace_activities" ->
            {JsonText(JObj([activities |->
                 JArr(<<JObj([id |-> JStr(<<"a", "1">>), name |-> JStr(<<"B">>)])>>)])),
             Text(<<"a", "b">>)}
      [] OTHER -> {Text(<<"O", "K", ".">>), Text(<<"a", "b">>)}

FewErrOutputs == {<<"", "text">>}

(***************************************************************************)
(* The settings an Rcc reads through its configuration provider.  Each is  *)
(* None (no provider, no configuration, or the key not set) or a str.      *)
(***************************************************************************)
\* A str made of one word that is not looked into.
Arg(word) == PyStr(<<word>>)

\* Lines 140-148: what _get_str_optional_setting may return.
SettingValues(word) == {None, PyStr(<<>>), Arg(word)}

\* Python's `if value:` for None or a str.
IsSet(value) == value # None /\ value.chars # <<>>

\* Lines 138-168: nothing is configured.
NoSettings == [rcc_location |-> None, config_location |-> None, endpoint |-> None]

SettingsChoices ==
    [rcc_location : SettingValues("/override/rcc"),
     config_location : SettingValues("/config.yaml"),
     endpoint : SettingValues("https://endpoint")]

\* Lines 273-278.
_add_config_to_args(args, config_location) ==
    IF IsSet(config_location) THEN args \o <<Arg("--config"), config_location>> ELSE args

\* Lines 289-292 and 305-308.
AddEndpointToArgs(args, endpoint) ==
    IF IsSet(endpoint) THEN args \o <<Arg("--endpoint"), endpoint>> ELSE args

\* The values the editor passes as template, directory, credential,
\* workspace_id and package_id.
TemplateArg == Arg("<template>")

DirectoryArg == Arg("<directory>")

CredentialArg == Arg("<credential>")

WorkspaceIdArg == Arg("<workspace_id>")

PackageIdArg == Arg("<package_id>")

\* The args each operation passes to _run_rcc.
ArgsOf(op, s) ==
    CASE op = "get_template_names" ->
            <<Arg("activity"), Arg("initialize"), Arg("-l")>>
      [] op = "create_activity" ->
            _add_config_to_args(
                <<Arg("activity"), Arg("initialize"), Arg("-t"), TemplateArg,
                  Arg("-d"), DirectoryArg>>,
                s.config_location)
      [] op = "add_credentials" ->
            _add_config_to_args(
                AddEndpointToArgs(<<Arg("config"), Arg("credentials")>>, s.endpoint),
                s.config_location) \o <<CredentialArg>>
      [] op = "credentials_valid" ->
            _add_config_to_args(
                AddEndpointToArgs(
                    <<Arg("config"), Arg("credentials"), Arg("-j"), Arg("--verified")>>,
                    s.endpoint),
                s.config_location)
      [] op = "cloud_list_workspaces" ->
            _add_config_to_args(<<Arg("cloud"), Arg("workspace")>>, s.config_location)
      [] op = "cloud_list_workspace_activities" ->
            _add_config_to_args(
                <<Arg("cloud"), Arg("workspace"), Arg("--workspace"), WorkspaceIdArg>>,
                s.config_location)
      [] op = "cloud_set_activity_contents" ->
            _add_config_to_args(
                <<Arg("cloud"), Arg("push"), Arg("--directory"), DirectoryArg,
                  Arg("--workspace"), WorkspaceIdArg, Arg("--package"), PackageIdArg>>,
                s.config_location)
      [] op = "cloud_create_activity" ->
            _add_config_to_args(
                <<Arg("cloud"), Arg("new"), Arg("--workspace"), WorkspaceIdArg,
                  Arg("--package"), PackageIdArg>>,
                s.config_location)

\* Lines 93-100: get_default_rcc_location().
DefaultRccLocation == Arg("<extension>/bin/rcc")

\* As ResolveLocation, with only None counting as not configured.
ResolveLocation_EmptyCounts(s) ==
    IF s.rcc_location = None THEN DefaultRccLocation ELSE s.rcc_location

\* Lines 175-177: the configured location, or the default one when it is
\* None or empty.
ResolveLocation(s) ==
    IF ~IsSet(s.rcc_location) THEN DefaultRccLocation ELSE s.rcc_location

(***************************************************************************)
(* State.                                                                  *)
(***************************************************************************)
VARIABLES
    settings,  \* settings[p]: what the configuration provider of p's Rcc holds
    fs,        \* the file at the rcc location: [exists, complete, exec]
    mutex,     \* mutex[name]: the processes holding the named system mutex
    pc,        \* pc[p]: where process p is in the code
    call,      \* call[p]: the entry point p called last and its arguments
    ret,       \* ret[p]: what that call returned or raised
    outcome,   \* outcome[p]: how the try block of _run_rcc ended in that call
    eff,       \* eff[p]: what that call has done so far (history)
    nonForcedFetches,  \* network fetches by download_rcc(force=False) (history, 0..2)
    installFailed      \* some download_rcc failed after taking the mutex (history)

vars == <<settings, fs, mutex, pc, call, ret, outcome, eff, nonForcedFetches, installFailed>>

Absent == [exists |-> FALSE, complete |-> FALSE, exec |-> FALSE]

Installed == [exists |-> TRUE, complete |-> TRUE, exec |-> TRUE]

\* os.path.exists(location)
Exists(f) == f.exists

NoCall == [op |-> "none", force |-> FALSE, isdir |-> TRUE, existed |-> FALSE]

NoOutcome == [k |-> "none"]

NoEffects ==
    [acquired |-> {}, fetches |-> 0, opens |-> 0, launches |-> 0, resolved |-> FALSE,
     argv |-> <<>>]

Init ==
    /\ settings = [p \in Procs |-> NoSettings]
    /\ fs \in {Absent, Installed}
    /\ mutex = [m \in MutexNames |-> {}]
    /\ pc = [p \in Procs |-> "idle"]
    /\ call = [p \in Procs |-> NoCall]
    /\ ret = [p \in Procs |-> NoReturn]
    /\ outcome = [p \in Procs |-> NoOutcome]
    /\ eff = [p \in Procs |-> NoEffects]
    /\ nonForcedFetches = 0
    /\ installFailed = FALSE

(***************************************************************************)
(* The named system mutex (robocode_ls_core.system_mutex): held by at most *)
(* one process; timed_acquire_mutex waits for it and gives up at its       *)
(* timeout; leaving the with block releases it.                            *)
(***************************************************************************)
IsFree(mx, name) == mx[name] = {}

Acquire(mx, name, p) == [mx EXCEPT ![name] = @ \cup {p}]

Release(mx, name, p) == [mx EXCEPT ![name] = @ \ {p}]

\* The wait can reach its timeout only while another process holds the mutex.
MayTimeOut(mx, name, p) == mx[name] \ {p} # {}

(***************************************************************************)
(* Calls and returns.                                                      *)
(***************************************************************************)
\* The entry point called by p ends: with a value, or with an exception
\* that leaves it.
Finish(p, value) ==
    /\ pc' = [pc EXCEPT ![p] = "idle"]
    /\ ret' = [ret EXCEPT ![p] = value]

Goto(p, label) ==
    /\ pc' = [pc EXCEPT ![p] = label]
    /\ UNCHANGED ret

\* p calls an entry point; the history of its previous call is dropped.
Enter(p, op, force, isdir) ==
    /\ pc[p] = "idle"
    /\ call' = [call EXCEPT ![p] =
                   [op |-> op, force |-> force, isdir |-> isdir, existed |-> Exists(fs)]]
    /\ outcome' = [outcome EXCEPT ![p] = NoOutcome]
    /\ eff' = [eff EXCEPT ![p] = NoEffects]
    /\ UNCHANGED <<settings, fs, mutex, nonForcedFetches, installFailed>>

\* The first statement of every operation that calls _run_rcc right away:
\* line 195, rcc_location = self.get_rcc_location().
EnterRun(p, op) ==
    /\ Enter(p, op, FALSE, TRUE)
    /\ pc' = [pc EXCEPT ![p] = "get_rcc_location"]
    /\ ret' = [ret EXCEPT ![p] = NoReturn]

get_template_names(p) == EnterRun(p, "get_template_names")

create_activity(p) == EnterRun(p, "create_activity")

add_credentials(p) == EnterRun(p, "add_credentials")

credentials_valid(p) == EnterRun(p, "credentials_valid")

cloud_list_workspaces(p) == EnterRun(p, "cloud_list_workspaces")

cloud_list_workspace_activities(p) == EnterRun(p, "cloud_list_workspace_activities")

cloud_create_activity(p) == EnterRun(p, "cloud_create_activity")

\* As DirectoryAsserted, with the assert left out.
DirectoryAsserted_NoAssert(isdir) == TRUE

\* Lines 401-403: assert os.path.isdir(directory) passes.
DirectoryAsserted(isdir) == isdir

\* Lines 401-411: the assert comes before the arguments and _run_rcc.
cloud_set_activity_contents(p) ==
    \E isdir \in BOOLEAN :
        /\ Enter(p, "cloud_set_activity_contents", FALSE, isdir)
        /\ IF DirectoryAsserted(isdir)
           THEN /\ pc' = [pc EXCEPT ![p] = "get_rcc_location"]
                /\ ret' = [ret EXCEPT ![p] = NoReturn]
           ELSE Finish(p, Raised("AssertionError"))

\* A direct call of Rcc.get_rcc_location.
get_rcc_location(p) ==
    /\ Enter(p, "get_rcc_location", FALSE, TRUE)
    /\ pc' = [pc EXCEPT ![p] = "get_rcc_location"]
    /\ ret' = [ret EXCEPT ![p] = NoReturn]

\* A direct call of download_rcc(location, force).
download_rcc(p) ==
    \E force \in BOOLEAN :
        /\ Enter(p, "download_rcc", force, TRUE)
        /\ pc' = [pc EXCEPT ![p] = "download_rcc"]
        /\ ret' = [ret EXCEPT ![p] = NoReturn]

(***************************************************************************)
(* Rcc.get_rcc_location, lines 175-181.                                    *)
(***************************************************************************)
\* Line 181: return rcc_location, to the editor or to _run_rcc (line 195).
ReturnLocation(p) ==
    IF call[p].op = "get_rcc_location"
    THEN Finish(p, Returned(ResolveLocation(settings[p])))
    ELSE Goto(p, "_run_rcc")

GetRccLocation(p) ==
    /\ pc[p] = "get_rcc_location"
    /\ eff' = [eff EXCEPT ![p].resolved = TRUE]
    /\ IF Exists(fs) THEN ReturnLocation(p) ELSE Goto(p, "download_rcc")
    /\ UNCHANGED <<settings, fs, mutex, call, outcome, nonForcedFetches, installFailed>>

(***************************************************************************)
(* download_rcc, lines 40-90.                                              *)
(***************************************************************************)
\* As NeedsDownload, without the test for the file.
NeedsDownload_Always(exists, force) == TRUE

\* Line 40: if not os.path.exists(location) or force.
NeedsDownload(exists, force) == ~exists \/ force

\* As StillNeedsDownload, without the second test for the file.
StillNeedsDownload_Always(exists, force) == TRUE

\* Line 42: the same test again, with the mutex held.
StillNeedsDownload(exists, force) == ~exists \/ force

\* download_rcc returns None: to the editor, or to get_rcc_location (line 180).
DownloadReturn(p) ==
    IF call[p].op = "download_rcc"
    THEN Finish(p, Returned(None))
    ELSE ReturnLocation(p)

\* An exception leaves download_rcc.  Neither get_rcc_location (line 180) nor
\* _run_rcc (line 195, before its try) nor any facade operation catches it.
DownloadRaise(p, exc) == Finish(p, Raised(exc))

DownloadCheck(p) ==
    /\ pc[p] = "download_rcc"
    /\ IF NeedsDownload(Exists(fs), call[p].force)
       THEN Goto(p, "acquire_get_rcc")
       ELSE DownloadReturn(p)
    /\ UNCHANGED <<settings, fs, mutex, call, outcome, eff, nonForcedFetches, installFailed>>

\* Lines 41-42: the mutex is taken and the test repeated; when the file is
\* there now, the with block is left at once.
DownloadAcquire(p) ==
    /\ pc[p] = "acquire_get_rcc"
    /\ IsFree(mutex, GET_RCC_MUTEX_NAME)
    /\ eff' = [eff EXCEPT ![p].acquired = @ \cup {GET_RCC_MUTEX_NAME}]
    /\ IF StillNeedsDownload(Exists(fs), call[p].force)
       THEN /\ mutex' = Acquire(mutex, GET_RCC_MUTEX_NAME, p)
            /\ Goto(p, "urlopen")
       ELSE /\ UNCHANGED mutex
            /\ DownloadReturn(p)
    /\ UNCHANGED <<settings, fs, call, outcome, nonForcedFetches, installFailed>>

\* Line 41: timed_acquire_mutex gives up after timeout=120.
DownloadAcquireTimeout(p) ==
    /\ pc[p] = "acquire_get_rcc"
    /\ MayTimeOut(mutex, GET_RCC_MUTEX_NAME, p)
    /\ DownloadRaise(p, "mutex timeout")
    /\ UNCHANGED <<settings, fs, mutex, call, outcome, eff, nonForcedFetches, installFailed>>

\* An exception inside the with block of line 41: the mutex is released and
\* the exception leaves download_rcc.
DownloadFail(p, exc) ==
    /\ mutex' = Release(mutex, GET_RCC_MUTEX_NAME, p)
    /\ installFailed' = TRUE
    /\ DownloadRaise(p, exc)

\* Lines 69-73: urlopen(url) and response.read().
DownloadFetch(p) ==
    /\ pc[p] = "urlopen"
    /\ eff' = [eff EXCEPT ![p].fetches = @ + 1]
    /\ nonForcedFetches' =
           IF call[p].force \/ nonForcedFetches = 2
           THEN nonForcedFetches ELSE nonForcedFetches + 1
    /\ \/ Goto(p, "open") /\ UNCHANGED <<mutex, installFailed>>
       \/ DownloadFail(p, "URLError")
    /\ UNCHANGED <<settings, fs, call, outcome>>

\* Lines 75-81: makedirs (errors ignored) and open(location, "wb"), which
\* creates the file or truncates it, keeping the mode of an existing file.
DownloadOpen(p) ==
    /\ pc[p] = "open"
    /\ \/ /\ fs' = [exists |-> TRUE, complete |-> FALSE, exec |-> fs.exec]
          /\ eff' = [eff EXCEPT ![p].opens = @ + 1]
          /\ Goto(p, "write")
          /\ UNCHANGED <<mutex, installFailed>>
       \/ /\ DownloadFail(p, "OSError")
          /\ UNCHANGED <<fs, eff>>
    /\ UNCHANGED <<settings, call, outcome, nonForcedFetches>>

\* Line 82 and the end of the inner with: stream.write(data) and close.
\* When the write fails, lines 84-90 log and re-raise; the file stays as it is.
DownloadWrite(p) ==
    /\ pc[p] = "write"
    /\ \/ /\ fs' = [fs EXCEPT !.complete = TRUE]
          /\ Goto(p, "chmod")
          /\ UNCHANGED <<mutex, installFailed>>
       \/ /\ DownloadFail(p, "OSError")
          /\ UNCHANGED fs
    /\ UNCHANGED <<settings, call, outcome, eff, nonForcedFetches>>

\* As DownloadChmod, with the mutex of line 41 kept when download_rcc returns.
DownloadChmod_KeepsMutex(p) ==
    /\ pc[p] = "chmod"
    /\ \/ /\ fs' = [fs EXCEPT !.exec = TRUE]
          /\ DownloadReturn(p)
          /\ UNCHANGED <<mutex, installFailed>>
       \/ /\ DownloadFail(p, "OSError")
          /\ UNCHANGED fs
    /\ UNCHANGED <<settings, call, outcome, eff, nonForcedFetches>>

\* Line 83: os.chmod(location, 0x744), then both with blocks are left.
DownloadChmod(p) ==
    /\ pc[p] = "chmod"
    /\ \/ /\ fs' = [fs EXCEPT !.exec = TRUE]
          /\ mutex' = Release(mutex, GET_RCC_MUTEX_NAME, p)
          /\ DownloadReturn(p)
          /\ UNCHANGED installFailed
       \/ /\ DownloadFail(p, "OSError")
          /\ UNCHANGED fs
    /\ UNCHANGED <<settings, call, outcome, eff, nonForcedFetches>>

(***************************************************************************)
(* Rcc._run_rcc, lines 203-209: the try block.                             *)
(***************************************************************************)
\* As ReleaseOnExit, with the mutex kept when an exception leaves the block.
ReleaseOnExit_NotOnException(mx, name, p, raised) ==
    IF name = NoMutexName \/ raised THEN mx ELSE Release(mx, name, p)

\* Line 208: leaving `with timed_acquire_mutex(mutex_name, timeout=15)`,
\* normally or by an exception (raised), releases the mutex; with no
\* mutex_name the context manager is NULL.
ReleaseOnExit(mx, name, p, raised) ==
    IF name = NoMutexName THEN mx ELSE Release(mx, name, p)

\* _run_rcc returns the ActionResult of lines 211-254 and the operation that
\* called it makes its own return value of it.
FinishRun(p, oc) ==
    /\ outcome' = [outcome EXCEPT ![p] = oc]
    /\ Finish(p, FacadeReturn(call[p].op,
                              _run_rcc(ExpectOk(call[p].op), ErrorMsg(call[p].op), oc)))

\* Lines 204-208: the mutex is taken when the operation names one.
RunAcquire(p) ==
    /\ pc[p] = "_run_rcc"
    /\ LET name == MutexNameOf(call[p].op)
       IN IF name = NoMutexName
          THEN UNCHANGED <<mutex, eff>>
          ELSE /\ IsFree(mutex, name)
               /\ mutex' = Acquire(mutex, name, p)
               /\ eff' = [eff EXCEPT ![p].acquired = @ \cup {name}]
    /\ Goto(p, "check_output")
    /\ UNCHANGED <<settings, fs, call, outcome, nonForcedFetches, installFailed>>

\* As RunAcquireTimeout, with the timeout ignored: the child is started
\* without the mutex.
RunAcquireTimeout_GoesOn(p) ==
    /\ pc[p] = "_run_rcc"
    /\ MutexNameOf(call[p].op) # NoMutexName
    /\ MayTimeOut(mutex, MutexNameOf(call[p].op), p)
    /\ Goto(p, "check_output")
    /\ UNCHANGED <<settings, fs, mutex, call, outcome, eff, nonForcedFetches, installFailed>>

\* Line 208: timed_acquire_mutex gives up after timeout=15; line 238 catches.
RunAcquireTimeout(p) ==
    /\ pc[p] = "_run_rcc"
    /\ MutexNameOf(call[p].op) # NoMutexName
    /\ MayTimeOut(mutex, MutexNameOf(call[p].op), p)
    /\ FinishRun(p, OtherException("mutex timeout"))
    /\ UNCHANGED <<settings, fs, mutex, call, eff, nonForcedFetches, installFailed>>

\* Lines 200 and 209: check_output starts the child with [rcc_location] + args;
\* a file that is missing or not executable gives OSError, caught at line 238.
Launch(p) ==
    /\ pc[p] = "check_output"
    /\ IF Exists(fs) /\ fs.exec
       THEN /\ Goto(p, "running")
            /\ eff' = [eff EXCEPT ![p].launches = @ + 1,
                                  ![p].argv = <<ResolveLocation(settings[p])>>
                                                  \o ArgsOf(call[p].op, settings[p])]
            /\ UNCHANGED <<mutex, outcome>>
       ELSE /\ mutex' = ReleaseOnExit(mutex, MutexNameOf(call[p].op), p, TRUE)
            /\ FinishRun(p, OtherException("OSError"))
            /\ UNCHANGED eff
    /\ UNCHANGED <<settings, fs, call, nonForcedFetches, installFailed>>

\* Line 209: the child exits with code 0 and check_output returns its stdout.
SubprocessExit0(p, stdouts) ==
    /\ pc[p] = "running"
    /\ \E stdout \in stdouts : FinishRun(p, Completed(stdout))
    /\ mutex' = ReleaseOnExit(mutex, MutexNameOf(call[p].op), p, FALSE)
    /\ UNCHANGED <<settings, fs, call, eff, nonForcedFetches, installFailed>>

\* Line 209: the child exits with another code; line 211 catches.
SubprocessNonZero(p, outputs) ==
    /\ pc[p] = "running"
    /\ \E e \in outputs : FinishRun(p, CalledProcessError(e[1], e[2]))
    /\ mutex' = ReleaseOnExit(mutex, MutexNameOf(call[p].op), p, TRUE)
    /\ UNCHANGED <<settings, fs, call, eff, nonForcedFetches, installFailed>>

\* As SubprocessTimeout, for a check_output called without timeout: it waits
\* for the child as long as the child runs.
SubprocessTimeout_WaitsForEver(p) ==
    /\ pc[p] = "running"
    /\ FALSE
    /\ UNCHANGED vars

\* Line 209: the child does not exit within timeout; check_output kills it and
\* raises TimeoutExpired, caught at line 238.
SubprocessTimeout(p) ==
    /\ pc[p] = "running"
    /\ FinishRun(p, OtherException("TimeoutExpired"))
    /\ mutex' = ReleaseOnExit(mutex, MutexNameOf(call[p].op), p, TRUE)
    /\ UNCHANGED <<settings, fs, call, eff, nonForcedFetches, installFailed>>

(***************************************************************************)
(* The system: every process calls entry points one after the other.       *)
(***************************************************************************)
Next ==
    \E p \in Procs :
        \/ get_template_names(p)
        \/ create_activity(p)
        \/ add_credentials(p)
        \/ credentials_valid(p)
        \/ cloud_list_workspaces(p)
        \/ cloud_list_workspace_activities(p)
        \/ cloud_set_activity_contents(p)
        \/ cloud_create_activity(p)
        \/ get_rcc_location(p)
        \/ download_rcc(p)
        \/ GetRccLocation(p)
        \/ DownloadCheck(p)
        \/ DownloadAcquire(p)
        \/ DownloadAcquireTimeout(p)
        \/ DownloadFetch(p)
        \/ DownloadOpen(p)
        \/ DownloadWrite(p)
        \/ DownloadChmod(p)
        \/ RunAcquire(p)
        \/ RunAcquireTimeout(p)
        \/ Launch(p)
        \/ SubprocessExit0(p, FewStdoutsFor(call[p].op))
        \/ SubprocessNonZero(p, FewErrOutputs)
        \/ SubprocessTimeout(p)

Spec == Init /\ [][Next]_vars

(***************************************************************************)
(* One process alone, with every modelled output of the child: what the    *)
(* operations make of the outputs.                                         *)
(***************************************************************************)
FacadeProc == CHOOSE p \in Procs : \A q \in Procs : p <= q

NextFacade ==
    \/ get_template_names(FacadeProc)
    \/ create_activity(FacadeProc)
    \/ add_credentials(FacadeProc)
    \/ credentials_valid(FacadeProc)
    \/ cloud_list_workspaces(FacadeProc)
    \/ cloud_list_workspace_activities(FacadeProc)
    \/ cloud_set_activity_contents(FacadeProc)
    \/ cloud_create_activity(FacadeProc)
    \/ get_rcc_location(FacadeProc)
    \/ GetRccLocation(FacadeProc)
    \/ DownloadCheck(FacadeProc)
    \/ DownloadAcquire(FacadeProc)
    \/ DownloadFetch(FacadeProc)
    \/ DownloadOpen(FacadeProc)
    \/ DownloadWrite(FacadeProc)
    \/ DownloadChmod(FacadeProc)
    \/ RunAcquire(FacadeProc)
    \/ Launch(FacadeProc)
    \/ SubprocessExit0(FacadeProc, StdoutsFor(call[FacadeProc].op))
    \/ SubprocessNonZero(FacadeProc, ErrOutputs)
    \/ SubprocessTimeout(FacadeProc)

\* The process has any of the modelled settings.
InitFacade ==
    /\ settings \in [Procs -> SettingsChoices]
    /\ \A p \in Procs \ {FacadeProc} : settings[p] = NoSettings
    /\ fs \in {Absent, Installed}
    /\ mutex = [m \in MutexNames |-> {}]
    /\ pc = [p \in Procs |-> "idle"]
    /\ call = [p \in Procs |-> NoCall]
    /\ ret = [p \in Procs |-> NoReturn]
    /\ outcome = [p \in Procs |-> NoOutcome]
    /\ eff = [p \in Procs |-> NoEffects]
    /\ nonForcedFetches = 0
    /\ installFailed = FALSE

SpecFacade == InitFacade /\ [][NextFacade]_vars

(***************************************************************************)
(* Properties.                                                             *)
(***************************************************************************)
CredentialOps == {"add_credentials", "credentials_valid"}

CloudActivityOps ==
    {"cloud_list_workspaces", "cloud_list_workspace_activities",
     "cloud_set_activity_contents", "cloud_create_activity"}

\* The operations that return an ActionResult.
ActionResultOps == RunOps \ {"credentials_valid"}

\* p is between the start of the child process and its end.
InSubprocess(p) == pc[p] = "running"

SubprocessesOf(ops) == {p \in Procs : InSubprocess(p) /\ call[p].op \in ops}

\* The call of p has ended.
HasReturned(p) == pc[p] = "idle" /\ ret[p].kind # "pending"

\* C1: of the processes calling operations that pass "rcc_credentials", at
\* most one is in its subprocess segment at any time, and likewise for the
\* operations that pass "rcc_cloud_activity".
C1_MutualExclusion ==
    /\ Cardinality(SubprocessesOf(CredentialOps)) <= 1
    /\ Cardinality(SubprocessesOf(CloudActivityOps)) <= 1

\* One process runs the child of a credentials operation while another has
\* reached the acquisition of the same mutex.
C1_Witness ==
    \E p \in Procs, q \in Procs :
        /\ p # q
        /\ InSubprocess(p) /\ call[p].op = "add_credentials"
        /\ pc[q] = "_run_rcc" /\ call[q].op = "credentials_valid"

\* C2: an operation that returns an ActionResult returns one, and raises
\* nothing, however the child process ended (exit 0 with any output, non-zero
\* exit, timeout).
C2_AlwaysActionResult ==
    \A p \in Procs :
        (HasReturned(p) /\ call[p].op \in ActionResultOps /\ outcome[p] # NoOutcome)
            => ret[p].kind = "ActionResult"

\* C3: when no download_rcc is between opening the file and the end of the
\* write, the file at the location is either missing or complete.
C3_NoPartialFile ==
    (\A p \in Procs : pc[p] # "write") => (Exists(fs) => fs.complete)

\* C4: as long as no download has failed, at most one network fetch was made
\* by download_rcc(force=False), and of the calls without force now in
\* progress or ended last, at most one has fetched or opened the file.
C4_OneInstaller ==
    ~installFailed =>
        /\ nonForcedFetches <= 1
        /\ Cardinality({p \in Procs : ~call[p].force
                                       /\ (eff[p].fetches > 0 \/ eff[p].opens > 0)}) <= 1

\* Two calls of download_rcc(force=False) that both found no file have ended;
\* both took the mutex, one fetched and wrote, the other did neither.
C4_Witness ==
    \E p \in Procs, q \in Procs :
        /\ p # q
        /\ ~installFailed
        /\ \A r \in {p, q} :
               /\ call[r].op = "download_rcc" /\ ~call[r].force /\ ~call[r].existed
               /\ HasReturned(r) /\ ret[r] = Returned(None)
               /\ GET_RCC_MUTEX_NAME \in eff[r].acquired
        /\ eff[p].fetches = 1 /\ eff[p].opens = 1
        /\ eff[q].fetches = 0 /\ eff[q].opens = 0

\* C5: a process whose call has ended (or that has not called yet) holds no
\* named mutex.
C5_NoDanglingLock ==
    \A p \in Procs : pc[p] = "idle" => \A name \in MutexNames : p \notin mutex[name]

\* A guarded operation took its mutex, its child timed out, the call has
\* ended and the mutex is free again.
C5_Witness ==
    \E p \in Procs :
        /\ HasReturned(p)
        /\ call[p].op = "cloud_create_activity"
        /\ RCC_CLOUD_ACTIVITY_MUTEX_NAME \in eff[p].acquired
        /\ outcome[p] = OtherException("TimeoutExpired")
        /\ mutex[RCC_CLOUD_ACTIVITY_MUTEX_NAME] = {}

\* C6: an operation whose installation of the binary failed (its _run_rcc
\* never came to its try block) returns a failed ActionResult, or False for
\* credentials_valid; no exception leaves it.
C6_InstallFailureIsReturned ==
    \A p \in Procs :
        (HasReturned(p) /\ call[p].op \in RunOps /\ call[p].isdir
                        /\ outcome[p] = NoOutcome)
            => \/ ret[p].kind = "ActionResult" /\ ~ret[p].success
               \/ ret[p] = Returned(PyBool(FALSE))

\* The "verified" value of a record counts: truthy and non-zero as an integer.
Verified(record) ==
    /\ record.t = "obj"
    /\ "verified" \in DOMAIN record.fields
    /\ Truthy(record.fields["verified"])
    /\ PyInt(record.fields["verified"]).ok
    /\ PyInt(record.fields["verified"]).n # 0

\* The invocation ended with exit code 0 and a JSON array with a verified record.
HasVerifiedCredential(oc) ==
    /\ oc.k = "completed"
    /\ oc.stdout.t = "json"
    /\ oc.stdout.val.t = "arr"
    /\ \E i \in 1..Len(oc.stdout.val.items) : Verified(oc.stdout.val.items[i])

\* C7: credentials_valid returns True exactly when the invocation ended with
\* exit code 0 and its output is a JSON array with a verified record, and
\* False, without an exception, in every other case.
C7_CredentialsValid ==
    \A p \in Procs :
        (HasReturned(p) /\ call[p].op = "credentials_valid" /\ outcome[p] # NoOutcome)
            => ret[p] = Returned(PyBool(HasVerifiedCredential(outcome[p])))

\* C8: an ActionResult with success false has no result.
C8_FailureHasNoResult ==
    \A p \in Procs :
        (HasReturned(p) /\ ret[p].kind = "ActionResult" /\ ~ret[p].success)
            => ret[p].result = None

\* C9: a call download_rcc(location, force=False) that found the file there
\* makes no network request, opens no file and takes no mutex, and returns
\* None; a download_rcc that fetches or writes over a file that was there was
\* called with force=True.
C9_ExistingFileUntouched ==
    \A p \in Procs :
        (call[p].op = "download_rcc" /\ call[p].existed) =>
            /\ ~call[p].force =>
                   /\ eff[p] = NoEffects
                   /\ pc[p] \in {"download_rcc", "idle"}
                   /\ pc[p] = "idle" => ret[p] = Returned(None)
            /\ (eff[p].fetches > 0 \/ eff[p].opens > 0) => call[p].force

\* One download_rcc(force=False) has returned from an existing file, and one
\* download_rcc(force=True) has opened an existing file for writing.
C9_Witness ==
    \E p \in Procs, q \in Procs :
        /\ call[p].op = "download_rcc" /\ ~call[p].force /\ call[p].existed
        /\ HasReturned(p)
        /\ call[q].op = "download_rcc" /\ call[q].force /\ call[q].existed
        /\ eff[q].fetches = 1 /\ eff[q].opens = 1

\* C10: cloud_set_activity_contents with a directory that is not a directory
\* fails (the assertion raises) with nothing done: no location resolved, no
\* download, no mutex taken, no child started.
C10_PushPrecondition ==
    \A p \in Procs :
        (call[p].op = "cloud_set_activity_contents" /\ ~call[p].isdir) =>
            /\ pc[p] = "idle"
            /\ ret[p] = Raised("AssertionError")
            /\ eff[p] = NoEffects
            /\ outcome[p] = NoOutcome
            /\ \A name \in MutexNames : p \notin mutex[name]

\* The push was called with a missing directory while the binary was not
\* installed, and the file system is as it was.
C10_Witness ==
    \E p \in Procs :
        /\ call[p].op = "cloud_set_activity_contents" /\ ~call[p].isdir
        /\ HasReturned(p)
        /\ ~call[p].existed /\ fs = Absent

(***************************************************************************)
(* Termination.  The calls are synchronous and blocking: a process that is *)
(* inside a call keeps running its own code, and the two waits (for a      *)
(* named mutex, for the child) end at their timeouts at the latest.  That  *)
(* the child exits by itself is not assumed, and neither is any progress   *)
(* of the other processes, which may hold a mutex for ever.                *)
(***************************************************************************)
\* The steps process p takes by itself once it is inside a call.
ProgramStep(p) ==
    \/ GetRccLocation(p)
    \/ DownloadCheck(p)
    \/ DownloadAcquire(p)
    \/ DownloadAcquireTimeout(p)
    \/ DownloadFetch(p)
    \/ DownloadOpen(p)
    \/ DownloadWrite(p)
    \/ DownloadChmod(p)
    \/ RunAcquire(p)
    \/ RunAcquireTimeout(p)
    \/ Launch(p)
    \/ SubprocessTimeout(p)

SpecLive == Init /\ [][Next]_vars /\ WF_vars(ProgramStep(FacadeProc))

\* The try block of _run_rcc ended at one of its two timeouts.
TimedOut(p) ==
    outcome[p] \in {OtherException("mutex timeout"), OtherException("TimeoutExpired")}

\* What a facade operation returns for a failure: a failed ActionResult, or
\* False from credentials_valid.
IsFailedResult(p) ==
    IF call[p].op = "credentials_valid"
    THEN ret[p] = Returned(PyBool(FALSE))
    ELSE ret[p].kind = "ActionResult" /\ ~ret[p].success

\* C11: a facade operation that has come to the try block of _run_rcc
\* returns, whatever the other processes and the child do (the mutex held for
\* ever by another process, a child that never exits); and when the wait for
\* the mutex or for the child ended at its timeout, what it returns is a
\* failed result, not an exception.
C11_TimeoutsEndTheCall ==
    /\ (pc[FacadeProc] \in {"_run_rcc", "check_output", "running"})
           ~> (pc[FacadeProc] = "idle")
    /\ [](\A p \in Procs : (HasReturned(p) /\ TimedOut(p)) => IsFailedResult(p))

\* The process gave up waiting for "rcc_credentials" and returned a failed
\* result while another process, whose child is still running, holds it.
C11_Witness ==
    \E q \in Procs :
        /\ q # FacadeProc
        /\ InSubprocess(q) /\ FacadeProc \notin mutex[RCC_CREDENTIALS_MUTEX_NAME]
        /\ q \in mutex[RCC_CREDENTIALS_MUTEX_NAME]
        /\ HasReturned(FacadeProc)
        /\ call[FacadeProc].op = "add_credentials"
        /\ outcome[FacadeProc] = OtherException("mutex timeout")
        /\ IsFailedResult(FacadeProc)

\* The operations that return the ActionResult of _run_rcc as it is.
PassThroughOps ==
    {"create_activity", "add_credentials", "cloud_set_activity_contents",
     "cloud_create_activity"}

\* C12: for an invocation that ended with exit code 0, _run_rcc returns
\* success exactly when expect_ok is false or stdout contains "OK."; a success
\* has the output as result and None as message; the operations that pass the
\* result on return just that.
C12_MarkerDecidesSuccess ==
    \A p \in Procs :
        (HasReturned(p) /\ outcome[p].k = "completed") =>
            LET expect_ok == ExpectOk(call[p].op)
                output == outcome[p].stdout
                result == _run_rcc(expect_ok, ErrorMsg(call[p].op), outcome[p])
            IN /\ result.kind = "ActionResult"
               /\ result.success <=> (~expect_ok \/ Contains(Chars(output), OK_MARKER))
               /\ result.success => (result.result = output /\ result.message = None)
               /\ call[p].op \in PassThroughOps => ret[p] = result

\* An operation that passes expect_ok=False got an output without the marker
\* and returned a success made from it.
C12_Witness ==
    \E p \in Procs :
        /\ HasReturned(p)
        /\ call[p].op = "cloud_list_workspaces"
        /\ outcome[p].k = "completed"
        /\ ~Contains(Chars(outcome[p].stdout), OK_MARKER)
        /\ ret[p].kind = "ActionResult" /\ ret[p].success

\* The operations that pass no mutex_name to _run_rcc.
UnguardedOps == {"get_template_names", "create_activity"}

OperationMutexNames == {RCC_CREDENTIALS_MUTEX_NAME, RCC_CLOUD_ACTIVITY_MUTEX_NAME}

\* C13: an operation that passes no mutex_name never takes "rcc_credentials"
\* or "rcc_cloud_activity", never gives up waiting for one, and never waits:
\* at the with statement of _run_rcc it can always go on, whoever holds a
\* mutex.
C13_UnguardedNeverLocks ==
    \A p \in Procs :
        call[p].op \in UnguardedOps =>
            /\ eff[p].acquired \cap OperationMutexNames = {}
            /\ \A name \in OperationMutexNames : p \notin mutex[name]
            /\ outcome[p] # OtherException("mutex timeout")
            /\ pc[p] = "_run_rcc" => ENABLED RunAcquire(p)

\* The binary was installed from the start; one process is in the subprocess
\* segment of get_template_names while another, in the subprocess segment of
\* add_credentials, holds "rcc_credentials".
C13_Witness ==
    \E p \in Procs, q \in Procs :
        /\ p # q
        /\ call[p].op = "get_template_names" /\ call[p].existed /\ InSubprocess(p)
        /\ call[q].op = "add_credentials" /\ InSubprocess(q)
        /\ q \in mutex[RCC_CREDENTIALS_MUTEX_NAME]

\* Two operations without a mutex_name are in their subprocess segments at
\* the same time.
C13_TwoUnguardedTogether ==
    \E p \in Procs, q \in Procs :
        /\ p # q
        /\ call[p].op = "get_template_names" /\ InSubprocess(p)
        /\ call[q].op = "create_activity" /\ InSubprocess(q)

\* argv has the flag somewhere after the binary.
HasFlag(argv, flag) == \E i \in 2..Len(argv) : argv[i] = Arg(flag)

\* argv has the flag followed by the value.
HasPair(argv, flag, value) ==
    \E i \in 2..(Len(argv) - 1) : argv[i] = Arg(flag) /\ argv[i + 1] = value

\* The operations on the credentials and on the cloud.
CloudOrCredentialOps == CredentialOps \cup CloudActivityOps

\* p has started its child.
HasLaunched(p) == call[p].op \in RunOps /\ eff[p].launches > 0

\* C14: the argument vector of every operation has "--config <path>" exactly
\* when config_location is set and not empty, and has "--endpoint <url>" only
\* for the operations on credentials and cloud and only when endpoint is set
\* and not empty.
C14_ConfigAndEndpointArgs ==
    \A p \in Procs :
        HasLaunched(p) =>
            LET argv == eff[p].argv
                s == settings[p]
            IN /\ HasFlag(argv, "--config") <=> IsSet(s.config_location)
               /\ IsSet(s.config_location) => HasPair(argv, "--config", s.config_location)
               /\ HasFlag(argv, "--endpoint") =>
                      /\ call[p].op \in CloudOrCredentialOps
                      /\ IsSet(s.endpoint)
                      /\ HasPair(argv, "--endpoint", s.endpoint)

\* The file at the location is there, completely written and executable.
FileReady == Exists(fs) /\ fs.complete /\ fs.exec

\* C15: whenever a process has the location from get_rcc_location and is at
\* check_output, about to start the binary, the file at the location is
\* completely written and executable.
C15_LaunchOnlyWhenReady ==
    \A p \in Procs : pc[p] = "check_output" => FileReady

\* The named mutexes p holds.
Holding(p) == {name \in MutexNames : p \in mutex[name]}

\* The named mutex p is asking for, if any: at line 41 or at line 208.
WaitsFor(p) ==
    IF pc[p] = "acquire_get_rcc" THEN {GET_RCC_MUTEX_NAME}
    ELSE IF pc[p] = "_run_rcc" /\ MutexNameOf(call[p].op) # NoMutexName
         THEN {MutexNameOf(call[p].op)}
         ELSE {}

\* C16: a process holds at most one named mutex; a process asking for a mutex
\* holds none (the installer's mutex is released before the operation's own is
\* asked for); and whoever holds a mutex another process asks for is itself
\* not asking for any and can take a step, so no cycle of waiting processes
\* exists.
C16_NoHoldAndWait ==
    \A p \in Procs :
        /\ Cardinality(Holding(p)) <= 1
        /\ WaitsFor(p) # {} => Holding(p) = {}
        /\ \A name \in WaitsFor(p) : \A q \in mutex[name] :
               WaitsFor(q) = {} /\ ENABLED ProgramStep(q)

\* One process installed the binary under "robocode_get_rcc" and now asks for
\* "rcc_credentials", holding nothing, while the other holds "rcc_credentials"
\* with its child running.
C16_Witness ==
    \E p \in Procs, q \in Procs :
        /\ p # q
        /\ call[p].op = "add_credentials" /\ pc[p] = "_run_rcc"
        /\ GET_RCC_MUTEX_NAME \in eff[p].acquired /\ eff[p].opens = 1
        /\ Holding(p) = {}
        /\ InSubprocess(q) /\ Holding(q) = {RCC_CREDENTIALS_MUTEX_NAME}

\* C17: an operation starts the child at most once; an operation that passes
\* a mutex_name has taken that mutex before it starts the child and holds it
\* while the child runs; and when the wait for the mutex timed out, no child
\* was started and _run_rcc returned a failed ActionResult, which the
\* operation returns as its failure.
C17_OneLaunchUnderMutex ==
    \A p \in Procs :
        call[p].op \in RunOps =>
            LET name == MutexNameOf(call[p].op)
            IN /\ eff[p].launches <= 1
               /\ (eff[p].launches > 0 /\ name # NoMutexName) => name \in eff[p].acquired
               /\ (InSubprocess(p) /\ name # NoMutexName) => p \in mutex[name]
               /\ outcome[p] = OtherException("mutex timeout") =>
                      /\ eff[p].launches = 0
                      /\ name \notin eff[p].acquired
                      /\ ~_run_rcc(ExpectOk(call[p].op), ErrorMsg(call[p].op),
                                   outcome[p]).success
                      /\ HasReturned(p) /\ IsFailedResult(p)

\* One operation gave up waiting for "rcc_cloud_activity" and returned a
\* failure without starting a child; the operation that held the mutex
\* started its child once, the child timed out, and it returned without
\* another start.
C17_Witness ==
    \E p \in Procs, q \in Procs :
        /\ p # q
        /\ call[p].op = "cloud_create_activity" /\ HasReturned(p)
        /\ outcome[p] = OtherException("mutex timeout")
        /\ eff[p].launches = 0 /\ IsFailedResult(p)
        /\ call[q].op = "cloud_set_activity_contents" /\ HasReturned(q)
        /\ outcome[q] = OtherException("TimeoutExpired")
        /\ eff[q].launches = 1

\* The path get_rcc_location is to return for the settings s.
ExpectedLocation(s) ==
    IF s.rcc_location \in {None, PyStr(<<>>)} THEN DefaultRccLocation ELSE s.rcc_location

\* The call of p has come to download_rcc.
DownloadTriggered(p) ==
    \/ pc[p] \in {"download_rcc", "acquire_get_rcc"}
    \/ GET_RCC_MUTEX_NAME \in eff[p].acquired

\* C18: in a call of get_rcc_location by a process alone (directly or from
\* _run_rcc), download_rcc is called exactly when the file at the resolved
\* path was not there; the path returned, and the path the child is started
\* with, is the configured rcc_location when that is set and not empty and the
\* default location otherwise, whether or not download_rcc was called.
C18_ResolvedLocation ==
    LET p == FacadeProc
    IN (call[p].op \in RunOps \cup {"get_rcc_location"} /\ eff[p].resolved) =>
           /\ DownloadTriggered(p) <=> ~call[p].existed
           /\ (HasReturned(p) /\ call[p].op = "get_rcc_location" /\ ret[p].kind = "value")
                  => ret[p] = Returned(ExpectedLocation(settings[p]))
           /\ HasLaunched(p) => eff[p].argv[1] = ExpectedLocation(settings[p])

\* get_rcc_location with rcc_location set to the empty string and no file at
\* the default location has downloaded the binary and returned the default
\* location.
C18_Witness ==
    /\ call[FacadeProc].op = "get_rcc_location" /\ HasReturned(FacadeProc)
    /\ settings[FacadeProc].rcc_location = PyStr(<<>>)
    /\ ~call[FacadeProc].existed
    /\ eff[FacadeProc].fetches = 1 /\ eff[FacadeProc].opens = 1
    /\ ret[FacadeProc] = Returned(DefaultRccLocation)

\* The names of a listing as a set: what follows "- " on the lines that begin
\* with it, without the white space around it.
NameSet(stdout) ==
    LET lines == SplitLines(Chars(stdout))
    IN {Strip(SubSeq(lines[i], 3, Len(lines[i]))) :
            i \in {j \in 1..Len(lines) : StartsWith(lines[j], <<"-", " ">>)}}

RECURSIVE Ascending(_)
\* The elements of a set of strings, each once, in ascending order.
Ascending(S) ==
    IF S = {} THEN <<>>
    ELSE LET least == CHOOSE x \in S : \A y \in S \ {x} : StrLess(x, y)
         IN <<least>> \o Ascending(S \ {least})

\* C19: for every stdout of a template listing that ended with exit code 0,
\* get_template_names returns a success whose result is the set of the names
\* on the lines that begin with "- ", in ascending order.
C19_TemplateNames ==
    \A p \in Procs :
        (HasReturned(p) /\ call[p].op = "get_template_names"
                        /\ outcome[p].k = "completed")
            => ret[p] = ActionResult(TRUE, None,
                                     PyList(Ascending(NameSet(outcome[p].stdout))))

====
